---- MODULE Spec2Model ----
(***************************************************************************)
(* A model of src/src/fpgagen.py: the two-pass RISC-V assembler            *)
(* (RISCVAssembler), the static branch/jump decoder                        *)
(* (BranchTraceParser.generate_from_assembly), the branch-table packer     *)
(* (generate_branch_mem) and the user-assembly path of main().             *)
(*                                                                         *)
(* Text is modelled as sequences of one-character strings, so that strip,  *)
(* startswith, split, lower and int() are computed as Python computes      *)
(* them.  A Python int is modelled as the set of the positions of its 1    *)
(* bits in IntWidth-bit two's complement (bit IntWidth-1 is the sign); no  *)
(* value of the model needs more bits, so |, &, << and >> are exact.       *)
(* Small quantities the code only adds and compares (addresses, loop       *)
(* indices, register numbers, offsets) are TLA+ integers, converted by     *)
(* ToBits where the code applies a bit operation to them.                  *)
(***************************************************************************)
EXTENDS Integers, Sequences, FiniteSets, TLC

(***************************************************************************)
(* Bounds of the model.                                                    *)
(***************************************************************************)
\* Width of the two's-complement representation of a Python int.
IntWidth == 72
\* Largest number of source lines of an enumerated assembly file.
MaxLines == 3
\* Largest number of facts handed to the packer by a trace.
MaxFacts == 3
\* Largest number of assemble() calls on one RISCVAssembler object.
MaxCalls == 2
\* Largest number of words of an enumerated machine-code list.
MaxWords == 3

(***************************************************************************)
(* Python str operations, on sequences of one-character strings.           *)
(***************************************************************************)
UpperChars == <<"A","B","C","D","E","F","G","H","I","J","K","L","M",
                "N","O","P","Q","R","S","T","U","V","W","X","Y","Z">>
LowerChars == <<"a","b","c","d","e","f","g","h","i","j","k","l","m",
                "n","o","p","q","r","s","t","u","v","w","x","y","z">>
DigitChars == <<"0","1","2","3","4","5","6","7","8","9">>

\* The position of c in the sequence s, 0 when it does not occur.
IndexOf(s, c) ==
    IF \E i \in 1..Len(s) : s[i] = c
    THEN CHOOSE i \in 1..Len(s) : s[i] = c /\ \A j \in 1..(i-1) : s[j] # c
    ELSE 0

\* str.lower(), one character.
LowerChar(c) ==
    IF IndexOf(UpperChars, c) # 0 THEN LowerChars[IndexOf(UpperChars, c)] ELSE c

\* str.lower()
Lower(s) == [i \in 1..Len(s) |-> LowerChar(s[i])]

\* str.isspace(), one character.
IsSpace(c) == c \in {" ", "\t"}

\* str.strip()
Strip(s) ==
    LET keep == {i \in 1..Len(s) : ~IsSpace(s[i])}
    IN  IF keep = {} THEN <<>>
        ELSE LET lo == CHOOSE i \in keep : \A j \in keep : i <= j
                 hi == CHOOSE i \in keep : \A j \in keep : j <= i
             IN  SubSeq(s, lo, hi)

\* str.startswith(p)
StartsWith(s, p) == Len(s) >= Len(p) /\ SubSeq(s, 1, Len(p)) = p

\* c in s
Contains(s, c) == IndexOf(s, c) # 0

\* s.split(c)[0]
BeforeFirst(s, c) == IF Contains(s, c) THEN SubSeq(s, 1, IndexOf(s, c) - 1) ELSE s

\* s.replace(',', ' ')
ReplaceComma(s) == [i \in 1..Len(s) |-> IF s[i] = "," THEN " " ELSE s[i]]

\* s.split(): the maximal runs of non-space characters, in order.
RECURSIVE Split(_)
Split(s) ==
    LET t == Strip(s)
    IN  IF t = <<>> THEN <<>>
        ELSE LET sp  == {i \in 1..Len(t) : IsSpace(t[i])}
                 cut == IF sp = {} THEN Len(t) + 1
                        ELSE CHOOSE i \in sp : \A j \in sp : i <= j
             IN  <<SubSeq(t, 1, cut - 1)>> \o Split(SubSeq(t, cut, Len(t)))

(***************************************************************************)
(* Python int(): the outcome is [ok |-> TRUE, val |-> n] or                *)
(* [ok |-> FALSE, exc |-> "ValueError"].  Tokens hold no underscore and no *)
(* space (they come out of split()), so those forms of a literal do not    *)
(* arise.                                                                  *)
(***************************************************************************)
Return(v) == [ok |-> TRUE, val |-> v]
Raise(e) == [ok |-> FALSE, exc |-> e]

\* The value of a digit character in a base up to 16, -1 when it is none.
DigitVal(c) ==
    IF IndexOf(DigitChars, c) # 0 THEN IndexOf(DigitChars, c) - 1
    ELSE IF IndexOf(LowerChars, LowerChar(c)) \in 1..6
         THEN 9 + IndexOf(LowerChars, LowerChar(c))
         ELSE -1

\* Whether s is a non-empty run of digits of the base.
IsDigits(s, base) ==
    /\ s # <<>>
    /\ \A i \in 1..Len(s) : DigitVal(s[i]) \in 0..(base - 1)

\* The value of a run of digits of the base.
RECURSIVE DigitsValue(_, _)
DigitsValue(s, base) ==
    IF s = <<>> THEN 0
    ELSE base * DigitsValue(SubSeq(s, 1, Len(s) - 1), base) + DigitVal(s[Len(s)])

\* A literal without its sign.
Unsigned(s) == IF s # <<>> /\ s[1] \in {"+", "-"} THEN Tail(s) ELSE s
Signed(s, n) == IF s # <<>> /\ s[1] = "-" THEN 0 - n ELSE n

\* int(s): base 10, an optional sign, then decimal digits.
ParseInt10(s) ==
    IF IsDigits(Unsigned(s), 10)
    THEN Return(Signed(s, DigitsValue(Unsigned(s), 10)))
    ELSE Raise("ValueError")

\* The base a 0x / 0o / 0b prefix selects, 0 when s has no such prefix.
PrefixBase(u) ==
    IF Len(u) >= 2 /\ u[1] = "0"
    THEN CASE LowerChar(u[2]) = "x" -> 16
           [] LowerChar(u[2]) = "o" -> 8
           [] LowerChar(u[2]) = "b" -> 2
           [] OTHER -> 0
    ELSE 0

\* int(s, 0): an optional sign, then a prefixed literal, or a decimal one
\* that has no leading zero unless it is all zeros.
ParseInt0(s) ==
    LET u == Unsigned(s)
        b == PrefixBase(u)
    IN  IF b # 0
        THEN IF IsDigits(SubSeq(u, 3, Len(u)), b)
             THEN Return(Signed(s, DigitsValue(SubSeq(u, 3, Len(u)), b)))
             ELSE Raise("ValueError")
        ELSE IF IsDigits(u, 10) /\ (u[1] # "0" \/ \A i \in 1..Len(u) : u[i] = "0")
             THEN Return(Signed(s, DigitsValue(u, 10)))
             ELSE Raise("ValueError")

(***************************************************************************)
(* Python int bit operations.  A value is the set of the positions of its  *)
(* 1 bits in IntWidth-bit two's complement.                                *)
(***************************************************************************)
BitPos == 0..(IntWidth - 1)

\* 2^k for the k the model's TLA+ integers reach.
Pow2(k) == 2 ^ k

\* Bit i of the TLA+ integer n, -2^31 <= n < 2^31 (floor division gives the
\* two's-complement bits of a negative n; above bit 30 only the sign is left).
BitOf(n, i) ==
    IF i >= 31 THEN (IF n < 0 THEN 1 ELSE 0) ELSE (n \div Pow2(i)) % 2

\* The Python int with the value of the TLA+ integer n.
ToBits(n) == {i \in BitPos : BitOf(n, i) = 1}

\* The value of a non-negative Python int below 2^31, as a TLA+ integer.
RECURSIVE SumPow2(_)
SumPow2(a) ==
    IF a = {} THEN 0
    ELSE LET i == CHOOSE j \in a : TRUE IN Pow2(i) + SumPow2(a \ {i})
ToInt(a) == SumPow2(a)

IsNegative(a) == (IntWidth - 1) \in a

\* a | b, a & b
BitOr(a, b) == a \cup b
BitAnd(a, b) == a \cap b

\* a << k
Shl(a, k) == {i + k : i \in a} \cap BitPos

\* a >> k (arithmetic, as Python's)
Shr(a, k) ==
    {i - k : i \in {j \in a : j >= k}}
      \cup (IF IsNegative(a) THEN (IntWidth - k)..(IntWidth - 1) ELSE {})

\* The bits lo..hi, the masks of the code: 0x7F is Mask(0, 6).
Mask(lo, hi) == lo..hi

\* (a + b) & 0xFFFFFFFF for non-negative a and b: a ripple-carry addition
\* over bits 0..31.
RECURSIVE AddCarry(_, _, _, _)
AddCarry(a, b, i, c) ==
    IF i > 31 THEN {}
    ELSE LET n == (IF i \in a THEN 1 ELSE 0) + (IF i \in b THEN 1 ELSE 0) + c
         IN  (IF n % 2 = 1 THEN {i} ELSE {}) \cup AddCarry(a, b, i + 1, n \div 2)
Add32(a, b) == AddCarry(a, b, 0, 0)

(***************************************************************************)
(* f"{v:0nX}": the sign, then at least n upper-case hexadecimal digits of  *)
(* the magnitude, most significant first.  A digit is modelled by its      *)
(* value 0..15 and the sign by the string "-".                             *)
(***************************************************************************)
\* The magnitude of a Python int: -a is ~a + 1.
RECURSIVE Increment(_, _)
Increment(a, i) ==
    IF i >= IntWidth THEN a
    ELSE IF i \in a THEN Increment(a \ {i}, i + 1) ELSE a \cup {i}
Magnitude(a) == IF IsNegative(a) THEN Increment(BitPos \ a, 0) ELSE a

Nibble(a, k) == ToInt({i - 4 * k : i \in {j \in a : j \in (4 * k)..(4 * k + 3)}})

HexDigitCount(a, n) ==
    LET top == IF a = {} THEN 0 ELSE CHOOSE i \in a : \A j \in a : j <= i
        need == (top \div 4) + 1
    IN  IF need > n THEN need ELSE n

FormatHex(v, n) ==
    LET m == Magnitude(v)
        sign == IF IsNegative(v) THEN <<"-">> ELSE <<>>
        d == HexDigitCount(m, n - Len(sign))
    IN  sign \o [k \in 1..d |-> Nibble(m, d - k)]

(***************************************************************************)
(* RISCVAssembler: register names.                                         *)
(***************************************************************************)
\* reg_map of _parse_register, as <<name, number>> pairs.
RegMap ==
    {  <<<<"z","e","r","o">>, 0>>,
       <<<<"r","a">>, 1>>,
       <<<<"s","p">>, 2>>,
       <<<<"g","p">>, 3>>,
       <<<<"t","p">>, 4>>,
       <<<<"t","0">>, 5>>,
       <<<<"t","1">>, 6>>,
       <<<<"t","2">>, 7>>,
       <<<<"s","0">>, 8>>,
       <<<<"f","p">>, 8>>,
       <<<<"s","1">>, 9>>,
       <<<<"a","0">>, 10>>,
       <<<<"a","1">>, 11>>,
       <<<<"a","2">>, 12>>,
       <<<<"a","3">>, 13>>,
       <<<<"a","4">>, 14>>,
       <<<<"a","5">>, 15>>,
       <<<<"a","6">>, 16>>,
       <<<<"a","7">>, 17>>,
       <<<<"s","2">>, 18>>,
       <<<<"s","3">>, 19>>,
       <<<<"s","4">>, 20>>,
       <<<<"s","5">>, 21>>,
       <<<<"s","6">>, 22>>,
       <<<<"s","7">>, 23>>,
       <<<<"s","8">>, 24>>,
       <<<<"s","9">>, 25>>,
       <<<<"s","1","0">>, 26>>,
       <<<<"s","1","1">>, 27>>,
       <<<<"t","3">>, 28>>,
       <<<<"t","4">>, 29>>,
       <<<<"t","5">>, 30>>,
       <<<<"t","6">>, 31>> }

\* reg_map.get(reg, 0)
RegMapGet(reg) ==
    IF \E e \in RegMap : e[1] = reg
    THEN (CHOOSE e \in RegMap : e[1] = reg)[2]
    ELSE 0

\* _parse_register: a name that starts with x goes to int(), which raises
\* ValueError on anything but a decimal integer; any other name is looked up
\* in reg_map with the default 0.
ParseRegister(reg) ==
    LET r == Lower(Strip(reg))
    IN  IF StartsWith(r, <<"x">>)
        THEN ParseInt10(Tail(r))
        ELSE Return(RegMapGet(r))

(***************************************************************************)
(* RISCVAssembler: the encoders.  labels is self.labels, a function from   *)
(* label names to addresses; an encoder's outcome is Return(word) or       *)
(* Raise(exception).                                                       *)
(***************************************************************************)
BEQ == <<"b","e","q">>
BNE == <<"b","n","e">>
BLT == <<"b","l","t">>
BGE == <<"b","g","e">>
JAL == <<"j","a","l">>
JALR == <<"j","a","l","r">>
ADD == <<"a","d","d">>
SUB == <<"s","u","b">>
AND == <<"a","n","d">>
OR == <<"o","r">>
XOR == <<"x","o","r">>
ADDI == <<"a","d","d","i">>
ANDI == <<"a","n","d","i">>
ORI == <<"o","r","i">>
XORI == <<"x","o","r","i">>
NOP == <<"n","o","p">>

\* The NOP word 0x00000013 (ADDI x0, x0, 0).
NopWord == ToBits(19)

\* The offset of a branch or jal target: labels[target] - pc when target is
\* a key of self.labels, else int(target, 0).
ResolveTarget(labels, target, pc) ==
    IF target \in DOMAIN labels
    THEN Return(labels[target] - pc)
    ELSE ParseInt0(target)

\* funct3_map.get(opcode, 0) of _encode_branch
BranchFunct3(opcode) ==
    CASE opcode = BEQ -> 0
      [] opcode = BNE -> 1
      [] opcode = BLT -> 4
      [] opcode = BGE -> 5
      [] OTHER -> 0

\* The word _encode_branch returns for parsed operands: imm12 is
\* offset & 0x1000, left where it is (bit 12); imm10_5 is (offset & 0x7E0)
\* << 20; imm4_1 is (offset & 0x1E) << 7; imm11 is (offset & 0x800) >> 4.
BranchWord(opcode, rs1, rs2, offset) ==
    LET off == ToBits(offset)
        imm12 == BitAnd(off, Mask(12, 12))
        imm10_5 == Shl(BitAnd(off, Mask(5, 10)), 20)
        imm4_1 == Shl(BitAnd(off, Mask(1, 4)), 7)
        imm11 == Shr(BitAnd(off, Mask(11, 11)), 4)
    IN  ToBits(99) \cup Shl(ToBits(BranchFunct3(opcode)), 12)
          \cup Shl(ToBits(rs1), 15) \cup Shl(ToBits(rs2), 20)
          \cup imm4_1 \cup imm11 \cup imm10_5 \cup imm12

\* _encode_branch: operands[0], operands[1], operands[2] in that order.
EncodeBranch(labels, opcode, operands, pc) ==
    IF Len(operands) < 1 THEN Raise("IndexError")
    ELSE LET rs1 == ParseRegister(operands[1])
    IN  IF ~rs1.ok THEN rs1
    ELSE IF Len(operands) < 2 THEN Raise("IndexError")
    ELSE LET rs2 == ParseRegister(operands[2])
    IN  IF ~rs2.ok THEN rs2
    ELSE IF Len(operands) < 3 THEN Raise("IndexError")
    ELSE LET offset == ResolveTarget(labels, operands[3], pc)
    IN  IF ~offset.ok THEN offset
    ELSE Return(BranchWord(opcode, rs1.val, rs2.val, offset.val))

\* The word _encode_jump returns for jal: 0x6F | (rd << 7) | (offset & 0xFFFFF000).
JalWord(rd, offset) ==
    ToBits(111) \cup Shl(ToBits(rd), 7) \cup BitAnd(ToBits(offset), Mask(12, 31))

\* The word _encode_jump returns for jalr:
\* 0x67 | (rd << 7) | (0 << 12) | (rs1 << 15) | ((offset & 0xFFF) << 20).
JalrWord(rd, rs1, offset) ==
    ToBits(103) \cup Shl(ToBits(rd), 7) \cup Shl(ToBits(rs1), 15)
      \cup Shl(BitAnd(ToBits(offset), Mask(0, 11)), 20)

\* _encode_jump
EncodeJump(labels, opcode, operands, pc) ==
    IF Len(operands) < 1 THEN Raise("IndexError")
    ELSE LET rd == ParseRegister(operands[1])
    IN  IF ~rd.ok THEN rd
    ELSE IF Len(operands) < 2 THEN Raise("IndexError")
    ELSE IF opcode = JAL
    THEN LET offset == ResolveTarget(labels, operands[2], pc)
         IN  IF ~offset.ok THEN offset ELSE Return(JalWord(rd.val, offset.val))
    ELSE LET rs1 == ParseRegister(operands[2])
             offset == IF Len(operands) > 2 THEN ParseInt0(operands[3]) ELSE Return(0)
         IN  IF ~rs1.ok THEN rs1
             ELSE IF ~offset.ok THEN offset
             ELSE Return(JalrWord(rd.val, rs1.val, offset.val))

\* funct3_map and funct7_map of _encode_rtype
RFunct3(opcode) ==
    CASE opcode = ADD -> 0 [] opcode = SUB -> 0 [] opcode = AND -> 7
      [] opcode = OR -> 6 [] opcode = XOR -> 4
RFunct7(opcode) ==
    CASE opcode = ADD -> 0 [] opcode = SUB -> 32 [] opcode = AND -> 0
      [] opcode = OR -> 0 [] opcode = XOR -> 0

\* The word _encode_rtype returns for parsed operands.
RTypeWord(opcode, rd, rs1, rs2) ==
    ToBits(51) \cup Shl(ToBits(rd), 7) \cup Shl(ToBits(RFunct3(opcode)), 12)
      \cup Shl(ToBits(rs1), 15) \cup Shl(ToBits(rs2), 20)
      \cup Shl(ToBits(RFunct7(opcode)), 25)

\* Three register operands in order, as _encode_rtype parses them.
EncodeRType(opcode, operands) ==
    IF Len(operands) < 1 THEN Raise("IndexError")
    ELSE LET rd == ParseRegister(operands[1])
    IN  IF ~rd.ok THEN rd
    ELSE IF Len(operands) < 2 THEN Raise("IndexError")
    ELSE LET rs1 == ParseRegister(operands[2])
    IN  IF ~rs1.ok THEN rs1
    ELSE IF Len(operands) < 3 THEN Raise("IndexError")
    ELSE LET rs2 == ParseRegister(operands[3])
    IN  IF ~rs2.ok THEN rs2
    ELSE Return(RTypeWord(opcode, rd.val, rs1.val, rs2.val))

\* funct3_map of _encode_itype
IFunct3(opcode) ==
    CASE opcode = ADDI -> 0 [] opcode = ANDI -> 7
      [] opcode = ORI -> 6 [] opcode = XORI -> 4

\* The word _encode_itype returns for parsed operands.
ITypeWord(opcode, rd, rs1, imm) ==
    ToBits(19) \cup Shl(ToBits(rd), 7) \cup Shl(ToBits(IFunct3(opcode)), 12)
      \cup Shl(ToBits(rs1), 15) \cup Shl(BitAnd(ToBits(imm), Mask(0, 11)), 20)

\* _encode_itype
EncodeIType(opcode, operands) ==
    IF Len(operands) < 1 THEN Raise("IndexError")
    ELSE LET rd == ParseRegister(operands[1])
    IN  IF ~rd.ok THEN rd
    ELSE IF Len(operands) < 2 THEN Raise("IndexError")
    ELSE LET rs1 == ParseRegister(operands[2])
    IN  IF ~rs1.ok THEN rs1
    ELSE IF Len(operands) < 3 THEN Raise("IndexError")
    ELSE LET imm == ParseInt0(operands[3])
    IN  IF ~imm.ok THEN imm
    ELSE Return(ITypeWord(opcode, rd.val, rs1.val, imm.val))

(***************************************************************************)
(* RISCVAssembler.assemble: the two passes over the source lines.          *)
(***************************************************************************)
\* str.lstrip() and str.rstrip()
LStrip(s) ==
    LET keep == {i \in 1..Len(s) : ~IsSpace(s[i])}
    IN  IF keep = {} THEN <<>>
        ELSE SubSeq(s, CHOOSE i \in keep : \A j \in keep : i <= j, Len(s))
RStrip(s) ==
    LET keep == {i \in 1..Len(s) : ~IsSpace(s[i])}
    IN  IF keep = {} THEN <<>>
        ELSE SubSeq(s, 1, CHOOSE i \in keep : \A j \in keep : j <= i)

\* assembly_code.strip().split('\n') for the text whose lines are src: the
\* blank lines at both ends go, the first line loses its leading and the last
\* its trailing white space, and a text of blank lines only gives [''].
FileLines(src) ==
    LET keep == {k \in 1..Len(src) : Strip(src[k]) # <<>>}
    IN  IF keep = {} THEN << <<>> >>
        ELSE LET lo == CHOOSE k \in keep : \A j \in keep : k <= j
                 hi == CHOOSE k \in keep : \A j \in keep : j <= k
             IN  [k \in 1..(hi - lo + 1) |->
                    IF lo = hi THEN Strip(src[lo])
                    ELSE IF k = 1 THEN LStrip(src[lo])
                    ELSE IF k = hi - lo + 1 THEN RStrip(src[hi])
                    ELSE src[lo + k - 1]]

\* self.labels[label] = current_pc
SetLabel(labels, label, addr) ==
    [l \in (DOMAIN labels) \cup {label} |-> IF l = label THEN addr ELSE labels[l]]

\* Pass1Step with the slip of advancing current_pc on a label line too.
Pass1StepCountsLabels(labels, pc, raw) ==
    LET line == Strip(raw)
    IN  IF line = <<>> \/ StartsWith(line, <<"#">>)
        THEN [labels |-> labels, pc |-> pc]
        ELSE IF Contains(line, ":")
        THEN [labels |-> SetLabel(labels, Strip(BeforeFirst(line, ":")), pc), pc |-> pc + 4]
        ELSE [labels |-> labels, pc |-> pc + 4]

\* One iteration of the first pass: blank and comment lines are skipped, a
\* line with a ':' sets the label before the first ':' to current_pc, any
\* other line advances current_pc by 4.
Pass1Step(labels, pc, raw) ==
    LET line == Strip(raw)
    IN  IF line = <<>> \/ StartsWith(line, <<"#">>)
        THEN [labels |-> labels, pc |-> pc]
        ELSE IF Contains(line, ":")
        THEN [labels |-> SetLabel(labels, Strip(BeforeFirst(line, ":")), pc), pc |-> pc]
        ELSE [labels |-> labels, pc |-> pc + 4]

\* The lines the second pass skips.
Pass2Skips(raw) ==
    LET line == Strip(raw)
    IN  line = <<>> \/ StartsWith(line, <<"#">>) \/ Contains(line, ":")

\* The body of the second pass for a line it does not skip: the word of the
\* instruction, or the exception its encoder raises.
EncodeLine(labels, raw, pc) ==
    LET parts == Split(ReplaceComma(Strip(raw)))
    IN  IF parts = <<>> THEN Raise("IndexError")
        ELSE LET opcode == Lower(parts[1])
                 operands == Tail(parts)
             IN  IF opcode \in {BEQ, BNE, BLT, BGE}
                 THEN EncodeBranch(labels, opcode, operands, pc)
                 ELSE IF opcode \in {JAL, JALR}
                 THEN EncodeJump(labels, opcode, operands, pc)
                 ELSE IF opcode \in {ADD, SUB, AND, OR, XOR}
                 THEN EncodeRType(opcode, operands)
                 ELSE IF opcode \in {ADDI, ANDI, ORI, XORI}
                 THEN EncodeIType(opcode, operands)
                 ELSE IF opcode = NOP
                 THEN Return(NopWord)
                 ELSE Return(NopWord)

\* The first pass over lines[k..], from the labels and address given.
RECURSIVE Pass1From(_, _, _, _)
Pass1From(labels, pc, lines, k) ==
    IF k > Len(lines) THEN labels
    ELSE LET st == Pass1Step(labels, pc, lines[k])
         IN  Pass1From(st.labels, st.pc, lines, k + 1)

\* The second pass over lines[k..]: the words appended to code, or the first
\* exception raised.
RECURSIVE Pass2From(_, _, _, _, _)
Pass2From(labels, pc, code, lines, k) ==
    IF k > Len(lines) THEN Return(code)
    ELSE IF Pass2Skips(lines[k]) THEN Pass2From(labels, pc, code, lines, k + 1)
    ELSE LET w == EncodeLine(labels, lines[k], pc)
         IN  IF ~w.ok THEN w
             ELSE Pass2From(labels, pc + 4, Append(code, w.val), lines, k + 1)

\* assemble(src) on an assembler whose self.labels is labels.
Assemble(labels, src) ==
    LET lines == FileLines(src)
    IN  Pass2From(Pass1From(labels, 0, lines, 1), 0, <<>>, lines, 1)

(***************************************************************************)
(* BranchTraceParser.generate_from_assembly.  A fact is                    *)
(* [pc, taken, target], pc and target Python ints.                         *)
(***************************************************************************)
\* inst & 0x7F
OpcodeOf(inst) == ToInt(BitAnd(inst, Mask(0, 6)))

\* The offset decoded from a branch word (lines 202-209).
BranchOffset(inst) ==
    LET imm12 == BitAnd(Shr(inst, 31), Mask(0, 0))
        imm10_5 == BitAnd(Shr(inst, 25), Mask(0, 5))
        imm4_1 == BitAnd(Shr(inst, 8), Mask(0, 3))
        imm11 == BitAnd(Shr(inst, 7), Mask(0, 0))
        offset == Shl(imm12, 12) \cup Shl(imm11, 11) \cup Shl(imm10_5, 5)
                    \cup Shl(imm4_1, 1)
    IN  IF imm12 # {} THEN offset \cup Mask(13, 31) ELSE offset

\* The offset decoded from a JAL word (lines 220-227).
JalOffset(inst) ==
    LET imm20 == BitAnd(Shr(inst, 31), Mask(0, 0))
        imm10_1 == BitAnd(Shr(inst, 21), Mask(0, 9))
        imm11 == BitAnd(Shr(inst, 20), Mask(0, 0))
        imm19_12 == BitAnd(Shr(inst, 12), Mask(0, 7))
        offset == Shl(imm20, 20) \cup Shl(imm19_12, 12) \cup Shl(imm11, 11)
                    \cup Shl(imm10_1, 1)
    IN  IF imm20 # {} THEN offset \cup Mask(21, 31) ELSE offset

\* DecodeWord with the slip of taking JALR (0x67) for a jump with a fact.
DecodeWordWithJalr(inst, i, pc) ==
    IF OpcodeOf(inst) = 99
    THEN << [pc |-> ToBits(pc), taken |-> (i % 2 = 0),
             target |-> Add32(ToBits(pc), BranchOffset(inst))] >>
    ELSE IF OpcodeOf(inst) \in {103, 111}
    THEN << [pc |-> ToBits(pc), taken |-> TRUE,
             target |-> Add32(ToBits(pc), JalOffset(inst))] >>
    ELSE <<>>

\* The facts one iteration of the loop appends for the word inst at index i
\* (0-based) and address pc: one for a branch, one for a JAL, none otherwise.
DecodeWord(inst, i, pc) ==
    IF OpcodeOf(inst) = 99
    THEN << [pc |-> ToBits(pc), taken |-> (i % 2 = 0),
             target |-> Add32(ToBits(pc), BranchOffset(inst))] >>
    ELSE IF OpcodeOf(inst) = 111
    THEN << [pc |-> ToBits(pc), taken |-> TRUE,
             target |-> Add32(ToBits(pc), JalOffset(inst))] >>
    ELSE <<>>

\* generate_from_assembly over the words from index i on.
RECURSIVE FactsFrom(_, _)
FactsFrom(code, i) ==
    IF i >= Len(code) THEN <<>>
    ELSE DecodeWord(code[i + 1], i, 4 * i) \o FactsFrom(code, i + 1)

(***************************************************************************)
(* generate_program_mem and generate_branch_mem.                           *)
(***************************************************************************)
\* The lines generate_program_mem writes: f"{inst:08X}" per word.
ProgramMemLines(code) == [k \in 1..Len(code) |-> FormatHex(code[k], 8)]

\* (pc >> 2) & 0xFF
TableIndex(pc) == ToInt(BitAnd(Shr(pc, 2), Mask(0, 7)))

\* (valid << 65) | (int(taken) << 64) | (pc << 32) | target, valid = 1
PackEntry(fact) ==
    Shl(ToBits(1), 65) \cup Shl(ToBits(IF fact.taken THEN 1 ELSE 0), 64)
      \cup Shl(fact.pc, 32) \cup fact.target

\* PackFact with the slip of keeping the entry a slot already has.
PackFactKeepsFirst(table, fact) ==
    [x \in (DOMAIN table) \cup {TableIndex(fact.pc)} |->
        IF x \in DOMAIN table THEN table[x] ELSE PackEntry(fact)]

\* One iteration of the loop of generate_branch_mem: branch_table[index] = entry.
PackFact(table, fact) ==
    [x \in (DOMAIN table) \cup {TableIndex(fact.pc)} |->
        IF x = TableIndex(fact.pc) THEN PackEntry(fact) ELSE table[x]]

\* The 256 lines generate_branch_mem writes: f"{entry:018X}" for a slot in
\* branch_table, 18 zeros for any other.
ZeroLine == [d \in 1..18 |-> 0]
BranchMemLines(table) ==
    [k \in 1..256 |->
        IF (k - 1) \in DOMAIN table THEN FormatHex(table[k - 1], 18)
        ELSE ZeroLine]

(***************************************************************************)
(* The inputs: assembly files.  A file is a sequence of lines drawn from   *)
(* a catalogue that has a line of every kind the assembler distinguishes   *)
(* and every way an instruction line can fail.                             *)
(***************************************************************************)
\* " \t"
LnBlank == <<" ","\t">>
\* "# c: x"
LnComment == <<"#"," ","c",":"," ","x">>
\* "loop:"
LnLoop == <<"l","o","o","p",":">>
\* "end: nop"
LnEndNop == <<"e","n","d",":"," ","n","o","p">>
\* "addi x1, x0, -1"
LnAddi == <<"a","d","d","i"," ","x","1",","," ","x","0",","," ","-","1">>
\* "ADDI t0, x1, ten"
LnAddiBad == <<"A","D","D","I"," ","t","0",","," ","x","1",","," ","t","e","n">>
\* "add x33, X5, foo"
LnAdd == <<"a","d","d"," ","x","3","3",","," ","X","5",","," ","f","o","o">>
\* "sub xyz, x1, x2"
LnSub == <<"s","u","b"," ","x","y","z",","," ","x","1",","," ","x","2">>
\* "beq x0, x0, loop"
LnBeq == <<"b","e","q"," ","x","0",","," ","x","0",","," ","l","o","o","p">>
\* "bne x1, x0, loop"
LnBne == <<"b","n","e"," ","x","1",","," ","x","0",","," ","l","o","o","p">>
\* "jal x0, end"
LnJal == <<"j","a","l"," ","x","0",","," ","e","n","d">>
\* "jalr x0, ra"
LnJalr == <<"j","a","l","r"," ","x","0",","," ","r","a">>

Catalogue ==
    { LnBlank, LnComment, LnLoop, LnEndNop, LnAddi, LnAddiBad, LnAdd, LnSub,
      LnBeq, LnJal, LnJalr }

\* "addi x1, x0, 10"
ExAddi10 == <<"a","d","d","i"," ","x","1",","," ","x","0",","," ","1","0">>
\* "addi x2, x0, 0"
ExAddi0 == <<"a","d","d","i"," ","x","2",","," ","x","0",","," ","0">>
\* "addi x2, x2, 1"
ExInc == <<"a","d","d","i"," ","x","2",","," ","x","2",","," ","1">>

\* The end-to-end example: five instructions, the bne at address 16 branching
\* back to loop at address 8.
LoopExample == <<ExAddi10, ExAddi0, LnLoop, ExInc, LnAddi, LnBne>>

RECURSIVE SeqsUpTo(_, _)
SeqsUpTo(S, n) ==
    IF n = 0 THEN {<<>>}
    ELSE LET shorter == SeqsUpTo(S, n - 1)
         IN  shorter \cup {Append(q, x) : q \in {r \in shorter : Len(r) = n - 1}, x \in S}

Programs == SeqsUpTo(Catalogue, MaxLines) \cup {LoopExample}

\* The files given to successive assemble() calls on one assembler.
ReuseCatalogue == {LnLoop, LnEndNop, LnAddi, LnBeq, LnJal}
ReusePrograms == SeqsUpTo(ReuseCatalogue, MaxLines - 1)

\* The facts a trace supplies to the packer: addresses that share a slot
\* (0 and 1024 both index slot 0), the top of the address range (slot 255),
\* both outcomes and the extreme targets.
TraceAddresses == {ToBits(0), ToBits(1024), Mask(2, 31)}
TraceTargets == {ToBits(0), Mask(0, 31)}
\* The words given to generate_from_assembly as a list of any ints: 0x63 and
\* 0x6F alone and with bit 7 set, JALR 0x67, the NOP 0x13, the negative -17
\* (low 7 bits 0x6F) and 0.
WordChoices ==
    {ToBits(99), ToBits(227), ToBits(111), ToBits(239), ToBits(103), ToBits(19),
     ToBits(-17), ToBits(0)}
WordLists == SeqsUpTo(WordChoices, MaxWords)

TraceFacts == [pc : TraceAddresses, taken : BOOLEAN, target : TraceTargets]
Traces == SeqsUpTo(TraceFacts, MaxFacts)

(***************************************************************************)
(* The state.                                                              *)
(***************************************************************************)
VARIABLES
    source,        \* the lines of the assembly file given to assemble()
    lines,         \* lines of assemble: assembly_code.strip().split('\n')
    at,            \* where control is
    calls,         \* assemble() calls made on the assembler so far
    labels,        \* RISCVAssembler.labels
    line,          \* the index of the line the running pass is at (from 1)
    current_pc,    \* current_pc of assemble
    machine_code,  \* the list the second pass appends to
    outcome,       \* what the last assemble() call gave its caller
    i,             \* the index of the word generate_from_assembly is at
    branches,      \* the facts: generate_from_assembly's list, or a trace's
    n,             \* the index of the fact generate_branch_mem is at (from 1)
    branch_table,  \* branch_table of generate_branch_mem
    program_file,  \* the file at args.program_out
    branch_file    \* the file at args.branch_out

vars == <<source, lines, at, calls, labels, line, current_pc, machine_code, outcome,
          i, branches, n, branch_table, program_file, branch_file>>

asmVars == <<lines, labels, line, current_pc, machine_code, outcome>>
factVars == <<i, branches, n, branch_table>>
fileVars == <<program_file, branch_file>>

\* No assemble() call has ended yet.
Pending == [pending |-> TRUE]
\* A file that does not exist, and one open(..., 'w') and the writes made.
Absent == [exists |-> FALSE, lines |-> <<>>]
Written(ls) == [exists |-> TRUE, lines |-> ls]

(***************************************************************************)
(* assemble(), one loop iteration per step.                                *)
(***************************************************************************)
\* One iteration of the first pass; after the last line the second pass
\* starts with current_pc = 0 and machine_code = [].
Pass1Line ==
    /\ at = "pass1"
    /\ LET st == Pass1Step(labels, current_pc, lines[line])
       IN  /\ labels' = st.labels
           /\ IF line < Len(lines)
              THEN /\ line' = line + 1
                   /\ current_pc' = st.pc
                   /\ at' = at
              ELSE /\ line' = 1
                   /\ current_pc' = 0
                   /\ at' = "pass2"
    /\ machine_code' = <<>>
    /\ UNCHANGED <<source, lines, calls, outcome, factVars, fileVars>>

\* Pass2Line with the slip of writing each word to the program-memory file
\* as soon as it is encoded.
Pass2LineStreams ==
    /\ at = "pass2"
    /\ LET skip == Pass2Skips(lines[line])
           w == IF skip THEN Return({}) ELSE EncodeLine(labels, lines[line], current_pc)
           code == IF skip THEN machine_code ELSE Append(machine_code, w.val)
       IN  IF ~w.ok
           THEN /\ at' = "raised"
                /\ outcome' = w
                /\ machine_code' = <<>>
                /\ UNCHANGED <<line, current_pc, program_file>>
           ELSE /\ current_pc' = IF skip THEN current_pc ELSE current_pc + 4
                /\ program_file' = Written(ProgramMemLines(code))
                /\ IF line < Len(lines)
                   THEN /\ line' = line + 1
                        /\ machine_code' = code
                        /\ UNCHANGED <<at, outcome>>
                   ELSE /\ at' = "returned"
                        /\ outcome' = Return(code)
                        /\ machine_code' = <<>>
                        /\ line' = line
    /\ UNCHANGED <<source, lines, calls, labels, factVars, branch_file>>

\* One iteration of the second pass.  An exception leaves assemble() at once
\* and machine_code is lost with the frame; after the last line
\* machine_code is returned.
Pass2Line ==
    /\ at = "pass2"
    /\ LET skip == Pass2Skips(lines[line])
           w == IF skip THEN Return({}) ELSE EncodeLine(labels, lines[line], current_pc)
           code == IF skip THEN machine_code ELSE Append(machine_code, w.val)
       IN  IF ~w.ok
           THEN /\ at' = "raised"
                /\ outcome' = w
                /\ machine_code' = <<>>
                /\ UNCHANGED <<line, current_pc>>
           ELSE /\ current_pc' = IF skip THEN current_pc ELSE current_pc + 4
                /\ IF line < Len(lines)
                   THEN /\ line' = line + 1
                        /\ machine_code' = code
                        /\ UNCHANGED <<at, outcome>>
                   ELSE /\ at' = "returned"
                        /\ outcome' = Return(code)
                        /\ machine_code' = <<>>
                        /\ line' = line
    /\ UNCHANGED <<source, lines, calls, labels, factVars, fileVars>>

(***************************************************************************)
(* main(), the branch for an assembly file given with --assembly and no    *)
(* --trace (lines 350-373).                                                *)
(***************************************************************************)
\* assembler = RISCVAssembler(); machine_code = assembler.assemble(assembly_code)
MainAssemble ==
    /\ at = "main"
    /\ at' = "pass1"
    /\ calls' = calls + 1
    /\ labels' = <<>>
    /\ lines' = FileLines(source)
    /\ line' = 1
    /\ current_pc' = 0
    /\ UNCHANGED <<source, machine_code, outcome, factVars, fileVars>>

\* generate_program_mem(machine_code, args.program_out)
MainWriteProgram ==
    /\ at = "returned"
    /\ program_file' = Written(ProgramMemLines(outcome.val))
    /\ at' = "program_written"
    /\ UNCHANGED <<source, calls, asmVars, factVars, branch_file>>

\* trace_parser.generate_from_assembly(machine_code): branches = [], pc = 0
MainDecode ==
    /\ at = "program_written"
    /\ at' = "decode"
    /\ i' = 0
    /\ branches' = <<>>
    /\ UNCHANGED <<source, calls, asmVars, n, branch_table, fileVars>>

\* One iteration of the loop of generate_from_assembly.
DecodeStep ==
    /\ at = "decode"
    /\ i < Len(outcome.val)
    /\ branches' = branches \o DecodeWord(outcome.val[i + 1], i, 4 * i)
    /\ i' = i + 1
    /\ UNCHANGED <<source, at, calls, asmVars, n, branch_table, fileVars>>

\* return branches; generate_branch_mem(branches, args.branch_out):
\* branch_table = {}
DecodeReturn ==
    /\ at = "decode"
    /\ i = Len(outcome.val)
    /\ at' = "pack"
    /\ n' = 1
    /\ branch_table' = <<>>
    /\ UNCHANGED <<source, calls, asmVars, i, branches, fileVars>>

(***************************************************************************)
(* generate_branch_mem, one loop iteration per step.                       *)
(***************************************************************************)
PackStep ==
    /\ at = "pack"
    /\ n <= Len(branches)
    /\ branch_table' = PackFact(branch_table, branches[n])
    /\ n' = n + 1
    /\ UNCHANGED <<source, at, calls, asmVars, i, branches, fileVars>>

\* The loop that writes the 256 lines.
WriteBranchMem ==
    /\ at = "pack"
    /\ n > Len(branches)
    /\ branch_file' = Written(BranchMemLines(branch_table))
    /\ at' = "done"
    /\ UNCHANGED <<source, calls, asmVars, factVars, program_file>>

(***************************************************************************)
(* The specifications.                                                     *)
(***************************************************************************)
Idle ==
    /\ lines = <<>>
    /\ calls = 0
    /\ labels = <<>>
    /\ line = 1
    /\ current_pc = 0
    /\ machine_code = <<>>
    /\ outcome = Pending
    /\ i = 0
    /\ branches = <<>>
    /\ n = 1
    /\ branch_table = <<>>
    /\ program_file = Absent
    /\ branch_file = Absent

\* A run of main() on an assembly file, from the file's text read.
Init ==
    /\ source \in Programs
    /\ at = "main"
    /\ Idle

Next ==
    \/ MainAssemble
    \/ Pass1Line
    \/ Pass2Line
    \/ MainWriteProgram
    \/ MainDecode
    \/ DecodeStep
    \/ DecodeReturn
    \/ PackStep
    \/ WriteBranchMem

Spec == Init /\ [][Next]_vars

\* One RISCVAssembler object given one file after another.
CallAssemble ==
    /\ at \in {"idle", "returned", "raised"}
    /\ calls < MaxCalls
    /\ \E src \in ReusePrograms :
          /\ source' = src
          /\ lines' = FileLines(src)
    /\ at' = "pass1"
    /\ calls' = calls + 1
    /\ line' = 1
    /\ current_pc' = 0
    /\ UNCHANGED <<labels, machine_code, outcome, factVars, fileVars>>

InitReuse ==
    /\ source = <<>>
    /\ at = "idle"
    /\ Idle

NextReuse ==
    \/ CallAssemble
    \/ Pass1Line
    \/ Pass2Line

SpecReuse == InitReuse /\ [][NextReuse]_vars

\* generate_from_assembly on a list of words, from its call to its return.
InitDecode ==
    /\ source = <<>>
    /\ at = "decode"
    /\ lines = <<>>
    /\ calls = 0
    /\ labels = <<>>
    /\ line = 1
    /\ current_pc = 0
    /\ machine_code = <<>>
    /\ outcome \in {Return(ws) : ws \in WordLists}
    /\ i = 0
    /\ branches = <<>>
    /\ n = 1
    /\ branch_table = <<>>
    /\ program_file = Absent
    /\ branch_file = Absent

NextDecode ==
    \/ DecodeStep
    \/ DecodeReturn

SpecDecode == InitDecode /\ [][NextDecode]_vars

\* generate_branch_mem on the facts of a trace (main with --trace, from the
\* call at line 371).
InitPack ==
    /\ source = <<>>
    /\ at = "pack"
    /\ lines = <<>>
    /\ calls = 0
    /\ labels = <<>>
    /\ line = 1
    /\ current_pc = 0
    /\ machine_code = <<>>
    /\ outcome = Pending
    /\ i = 0
    /\ branches \in Traces
    /\ n = 1
    /\ branch_table = <<>>
    /\ program_file = Absent
    /\ branch_file = Absent

NextPack ==
    \/ PackStep
    \/ WriteBranchMem

SpecPack == InitPack /\ [][NextPack]_vars

(***************************************************************************)
(* The vocabulary of the properties: the kinds of source line and the      *)
(* instruction lines by position.                                          *)
(***************************************************************************)
IsBlankLine(l) == \A c \in 1..Len(l) : IsSpace(l[c])
IsCommentLine(l) == ~IsBlankLine(l) /\ Strip(l)[1] = "#"
IsLabelLine(l) ==
    ~IsBlankLine(l) /\ ~IsCommentLine(l) /\ \E c \in 1..Len(l) : l[c] = ":"
IsInstrLine(l) == ~IsBlankLine(l) /\ ~IsCommentLine(l) /\ ~IsLabelLine(l)

\* The number of instruction lines among the first p - 1 lines.
InstrBefore(ls, p) == Cardinality({j \in 1..(p - 1) : IsInstrLine(ls[j])})
InstrCount(ls) == InstrBefore(ls, Len(ls) + 1)

\* The name a label line defines.
LabelName(l) == Strip(BeforeFirst(Strip(l), ":"))

\* Line p is the last line defining its label.
IsLastDefinition(ls, p) ==
    /\ IsLabelLine(ls[p])
    /\ \A q \in (p + 1)..Len(ls) :
          IsLabelLine(ls[q]) => LabelName(ls[q]) # LabelName(ls[p])

\* The first pass is over; the second has reached line `line`.
Pass1Over == at \notin {"main", "idle", "pass1"}

\* C4: two-pass address consistency.  Once the first pass is over every
\* label has the address 4 x (the number of instruction lines before its
\* definition) and all label addresses are multiples of 4; the second pass
\* reaches each line with current_pc = 4 x (the number of instruction lines
\* before it) and as many words emitted, so the k-th instruction line is
\* encoded at 4k and a label has the address at which the first instruction
\* line after it is encoded; assemble returns one word per instruction line.
C4_TwoPassAddresses ==
    /\ Pass1Over =>
          /\ DOMAIN labels = {LabelName(lines[p]) : p \in {q \in 1..Len(lines) : IsLabelLine(lines[q])}}
          /\ \A p \in 1..Len(lines) :
                IsLastDefinition(lines, p) =>
                    labels[LabelName(lines[p])] = 4 * InstrBefore(lines, p)
          /\ \A l \in DOMAIN labels : labels[l] % 4 = 0
    /\ at = "pass2" =>
          /\ current_pc = 4 * InstrBefore(lines, line)
          /\ Len(machine_code) = InstrBefore(lines, line)
          /\ \A p \in 1..(line - 1) :
                (/\ IsLastDefinition(lines, p)
                 /\ IsInstrLine(lines[line])
                 /\ \A q \in (p + 1)..(line - 1) : ~IsInstrLine(lines[q]))
                => labels[LabelName(lines[p])] = current_pc
    /\ at = "returned" =>
          /\ outcome.ok
          /\ Len(outcome.val) = InstrCount(source)

\* The second pass is at an instruction line that a label defined after two
\* or more instruction lines points to.
C4_Witness ==
    /\ at = "pass2"
    /\ IsInstrLine(lines[line])
    /\ current_pc >= 8
    /\ \E l \in DOMAIN labels : labels[l] = current_pc

\* C9: atomic failure.  When assemble() fails in a run of main() on an
\* assembly file, the run has ended with the exception: no word sequence was
\* returned and neither the program-memory file nor the branch-table file
\* has been created or written.
C9_AtomicFailure ==
    at = "raised" =>
        /\ ~outcome.ok
        /\ machine_code = <<>>
        /\ program_file = Absent
        /\ branch_file = Absent

\* assemble() failed on an instruction line after it had encoded a word.
C9_Witness ==
    /\ at = "raised"
    /\ outcome.exc = "ValueError"
    /\ current_pc >= 4

\* The words of the program: what assemble() returned.
Words == outcome.val

\* The low 7 bits of a word are the given opcode.
HasOpcode(w, op) == w \cap (0..6) = ToBits(op)

\* The indices (0-based) below k of the words that are branches or JALs.
FactIndices(k) ==
    {m \in 0..(k - 1) : HasOpcode(Words[m + 1], 99) \/ HasOpcode(Words[m + 1], 111)}

\* C10: static fact derivation.  After generate_from_assembly has looked at
\* the words before index i, branches holds, in program order, exactly one
\* fact for each of them whose low 7 bits are 0x63 or 0x6F and none for any
\* other; the fact of the word at index m has address 4m; it has taken = TRUE
\* for a JAL and taken = (m is even) for a branch.
C10_StaticFacts ==
    at \in {"decode", "pack", "done"} =>
        /\ Len(branches) = Cardinality(FactIndices(i))
        /\ \A m \in FactIndices(i) :
              LET r == Cardinality(FactIndices(m)) + 1
              IN  /\ branches[r].pc = ToBits(4 * m)
                  /\ branches[r].taken =
                        (HasOpcode(Words[m + 1], 111) \/ m % 2 = 0)

\* The decoder is done with a list that has a JALR first (no fact), a branch
\* at index 1 (not taken) and a JAL.
C10_Witness ==
    /\ at = "pack"
    /\ Len(Words) = 3
    /\ HasOpcode(Words[1], 103)
    /\ HasOpcode(Words[2], 99)
    /\ HasOpcode(Words[3], 111)
    /\ Len(branches) = 2
    /\ ~branches[1].taken

\* The value a line of hexadecimal digits denotes.
LineValue(l) ==
    UNION {{4 * (Len(l) - k) + b : b \in {c \in 0..3 : (l[k] \div (2 ^ c)) % 2 = 1}} :
              k \in 1..Len(l)}

\* The slot of an address: (address >> 2) & 0xFF.
SlotOf(address) == {b - 2 : b \in address \cap (2..9)}

\* 2^65 + taken * 2^64 + address * 2^32 + target
Record(fact) ==
    {65} \cup (IF fact.taken THEN {64} ELSE {})
         \cup {b + 32 : b \in fact.pc} \cup fact.target

\* The record 0, as 18 hexadecimal digits.
NoRecord == [d \in 1..18 |-> 0]

\* The slot number of a fact.
SlotNumber(fact) == ToInt(SlotOf(fact.pc))

\* C6: packer slot content and last-write-wins.  The branch-table file has
\* exactly 256 records in slot order; a slot no fact maps to holds 0, and the
\* slot of a fact that no later fact shares holds that fact's packed record,
\* which is not 0: slot s holds the record of the last fact that maps to s,
\* and 0 if and only if there is none.
C6_LastWriteWins ==
    at = "done" =>
        /\ branch_file.exists
        /\ Len(branch_file.lines) = 256
        /\ \A s \in 1..256 : Len(branch_file.lines[s]) = 18
        /\ \A s \in (0..255) \ {SlotNumber(branches[k]) : k \in 1..Len(branches)} :
              branch_file.lines[s + 1] = NoRecord
        /\ \A k \in 1..Len(branches) :
              (\A j \in (k + 1)..Len(branches) :
                    SlotNumber(branches[j]) # SlotNumber(branches[k]))
              => /\ LineValue(branch_file.lines[SlotNumber(branches[k]) + 1])
                       = Record(branches[k])
                 /\ branch_file.lines[SlotNumber(branches[k]) + 1] # NoRecord

\* A table written from a trace in which a fact at address 1024 follows a
\* different fact at address 0: both map to slot 0.
C6_Witness ==
    /\ at = "done"
    /\ \E a, b \in 1..Len(branches) :
          /\ a < b
          /\ branches[a].pc = ToBits(0)
          /\ branches[b].pc = ToBits(1024)
          /\ branches[a].target # branches[b].target

(***************************************************************************)
(* The instruction lines of the program by index, for the properties of    *)
(* the words and facts derived from them.                                  *)
(***************************************************************************)
\* assemble() has returned the words of the program.
Assembled == at \in {"returned", "program_written", "decode", "pack", "done"}

\* The position in lines of the instruction line with index k (0-based).
InstrPos(k) ==
    CHOOSE p \in 1..Len(lines) : IsInstrLine(lines[p]) /\ InstrBefore(lines, p) = k

\* The tokens of a line and its mnemonic.
Tokens(l) == Split(ReplaceComma(Strip(l)))
Mnemonic(l) == Lower(Tokens(l)[1])

IsBranchLine(l) == Mnemonic(l) \in {BEQ, BNE, BLT, BGE}
IsJalLine(l) == Mnemonic(l) = JAL

\* A branch or jal line at address a whose target is a label of the source.
HasLabelTarget(l, pos) == Len(Tokens(l)) >= pos /\ Tokens(l)[pos] \in DOMAIN labels

\* C1: branch round trip.  For every branch assembled at address A whose
\* target is a label defined in the source at address L, with L - A even and
\* in [-4096, 4094], the fact derived from the encoded word has target L
\* (in the loop example: the bne at 16 decodes to target 8).
C1_BranchRoundTrip ==
    at \in {"pack", "done"} =>
        \A k \in 0..(Len(Words) - 1) :
            LET l == lines[InstrPos(k)]
            IN  (/\ IsBranchLine(l)
                 /\ HasLabelTarget(l, 4)
                 /\ (labels[Tokens(l)[4]] - 4 * k) % 2 = 0
                 /\ (labels[Tokens(l)[4]] - 4 * k) \in (-4096)..4094)
                => \E r \in 1..Len(branches) :
                      /\ branches[r].pc = ToBits(4 * k)
                      /\ branches[r].target = ToBits(labels[Tokens(l)[4]])

\* C2: JAL round trip.  For every jal assembled at address A whose target is
\* a label defined in the source at address L, the fact derived from the
\* encoded word has taken = TRUE and target L; the decoder's offset is the
\* word's bits 31..12 left in place (word & 0xFFFFF000).
C2_JalRoundTrip ==
    at \in {"pack", "done"} =>
        \A k \in 0..(Len(Words) - 1) :
            LET l == lines[InstrPos(k)]
            IN  (IsJalLine(l) /\ HasLabelTarget(l, 3))
                => /\ \E r \in 1..Len(branches) :
                         /\ branches[r].pc = ToBits(4 * k)
                         /\ branches[r].taken
                         /\ branches[r].target = ToBits(labels[Tokens(l)[3]])
                   /\ JalOffset(Words[k + 1]) \cap (0..31) = Words[k + 1] \cap (12..31)

\* The funct3 of a branch mnemonic.
Funct3Of(m) ==
    CASE m = BEQ -> 0 [] m = BNE -> 1 [] m = BLT -> 4 [] m = BGE -> 5

\* The field of a word in bits lo..hi, as a value.
Field(w, lo, hi) == {b - lo : b \in w \cap (lo..hi)}

\* C3: B-type field layout.  For every branch with rs1, rs2 in 0..31 and an
\* even offset in [-4096, 4094], the word has bits[6:0] = 0x63, bits[14:12] =
\* the mnemonic's funct3, bits[19:15] = rs1, bits[24:20] = rs2, bit 31 =
\* offset bit 12, bits[30:25] = offset bits[10:5], bits[11:8] = offset
\* bits[4:1] and bit 7 = offset bit 11.
C3_BTypeLayout ==
    Assembled =>
        \A k \in 0..(Len(Words) - 1) :
            LET l == lines[InstrPos(k)]
                t == Tokens(l)
                w == Words[k + 1]
                rs1 == ParseRegister(t[2]).val
                rs2 == ParseRegister(t[3]).val
                offset == ResolveTarget(labels, t[4], 4 * k).val
                off == ToBits(offset)
            IN  (/\ IsBranchLine(l)
                 /\ rs1 \in 0..31
                 /\ rs2 \in 0..31
                 /\ offset % 2 = 0
                 /\ offset \in (-4096)..4094)
                => /\ Field(w, 0, 6) = ToBits(99)
                   /\ Field(w, 12, 14) = ToBits(Funct3Of(Mnemonic(l)))
                   /\ Field(w, 15, 19) = ToBits(rs1)
                   /\ Field(w, 20, 24) = ToBits(rs2)
                   /\ Field(w, 31, 31) = Field(off, 12, 12)
                   /\ Field(w, 25, 30) = Field(off, 5, 10)
                   /\ Field(w, 8, 11) = Field(off, 1, 4)
                   /\ Field(w, 7, 7) = Field(off, 11, 11)

\* C5: the symbol table is scoped to one assemble() call.  Whatever calls
\* the assembler has served, a call's outcome is the outcome of the same
\* source on a new assembler: a label of an earlier source is not visible.
C5_ScopedSymbols ==
    at \in {"returned", "raised"} => outcome = Assemble(<<>>, source)

\* The positions, among the tokens of an instruction line, of its register
\* operands.
RegisterPositions(l) ==
    LET m == Mnemonic(l)
        all == CASE m \in {BEQ, BNE, BLT, BGE} -> {2, 3}
                 [] m = JAL -> {2}
                 [] m = JALR -> {2, 3}
                 [] m \in {ADD, SUB, AND, OR, XOR} -> {2, 3, 4}
                 [] m \in {ADDI, ANDI, ORI, XORI} -> {2, 3}
                 [] OTHER -> {}
    IN  {q \in all : q <= Len(Tokens(l))}

\* A register token that is neither x<decimal integer> nor an ABI alias.
IsUnknownRegister(tok) ==
    LET r == Lower(Strip(tok))
    IN  /\ ~(r # <<>> /\ r[1] = "x" /\ ParseInt10(Tail(r)).ok)
        /\ \A e \in RegMap : e[1] # r

\* The second pass has been at line p.
Pass2Reached(p) ==
    \/ Assembled
    \/ at = "pass2" /\ p < line
    \/ at = "raised" /\ p <= line

\* C7: unknown register names never fail.  For every register token of an
\* instruction line the second pass has been at, if the token is neither
\* x<decimal integer> nor an ABI alias then _parse_register returns 0 for
\* it (it raises nothing, so the token does not stop the run).
C7_UnknownRegisterIsZero ==
    \A p \in 1..Len(lines) :
        (Pass2Reached(p) /\ IsInstrLine(lines[p]) /\ Tokens(lines[p]) # <<>>)
        => \A q \in RegisterPositions(lines[p]) :
              IsUnknownRegister(Tokens(lines[p])[q])
              => ParseRegister(Tokens(lines[p])[q]) = Return(0)

\* The opcode of the class of a mnemonic.
ClassOpcode(m) ==
    CASE m \in {BEQ, BNE, BLT, BGE} -> 99
      [] m = JAL -> 111
      [] m = JALR -> 103
      [] m \in {ADD, SUB, AND, OR, XOR} -> 51
      [] OTHER -> 19

\* A line with every numeric register name xN replaced by x(N mod 32).
Reg5(v) == v % 32
WordWithRegistersMod32(l, pc) ==
    LET t == Tokens(l)
        m == Mnemonic(l)
        reg(q) == Reg5(ParseRegister(t[q]).val)
    IN  CASE m \in {BEQ, BNE, BLT, BGE} ->
               BranchWord(m, reg(2), reg(3), ResolveTarget(labels, t[4], pc).val)
          [] m = JAL -> JalWord(reg(2), ResolveTarget(labels, t[3], pc).val)
          [] m = JALR ->
               JalrWord(reg(2), reg(3), IF Len(t) > 3 THEN ParseInt0(t[4]).val ELSE 0)
          [] m \in {ADD, SUB, AND, OR, XOR} -> RTypeWord(m, reg(2), reg(3), reg(4))
          [] m \in {ADDI, ANDI, ORI, XORI} ->
               ITypeWord(m, reg(2), reg(3), ParseInt0(t[4]).val)
          [] OTHER -> NopWord

\* C8: every word is a 32-bit unsigned value whose low 7 bits are its
\* class's opcode, and a register name xN with N > 31 gives the word of
\* x(N mod 32): N changes no other field.
C8_WordsAre32Bit ==
    Assembled =>
        \A k \in 0..(Len(Words) - 1) :
            LET l == lines[InstrPos(k)]
                w == Words[k + 1]
            IN  /\ w \subseteq 0..31
                /\ Field(w, 0, 6) = ToBits(ClassOpcode(Mnemonic(l)))
                /\ w = WordWithRegistersMod32(l, 4 * k)

====
